---- MODULE Spec2Model ----
(***************************************************************************)
(* csvproc: the column summarizer of src/csvproc/summarize.py.             *)
(*                                                                         *)
(* A string is a sequence of one-character strings, so "10" is             *)
(* <<"1", "0">> and the empty string is <<>>.  A csv file is the sequence  *)
(* of rows csv.reader yields for it, each row a sequence of cells; a blank *)
(* line is the row <<>>.  The first row of a stream is its header.         *)
(***************************************************************************)
EXTENDS Integers, Sequences, FiniteSets, TLC

VARIABLES lines, file, prev, last, value, result

vars == <<lines, file, prev, last, value, result>>

(* ------------------------------------------------------------------ *)
(* Bounds of the model                                                 *)
(* ------------------------------------------------------------------ *)

\* data rows (blank lines included) after the header line
MaxRows == 3
\* cells of all data rows together
MaxCells == 3
\* length of a value handed to determine_type in SpecClassify
MaxLen == 3

Digits == {"0", "1"}
Letters == {"e", "x"}
Alphabet == Digits \cup Letters

\* the cells a data row is made of: "", "0", "1", "x"
Values == {<<>>, <<"0">>, <<"1">>, <<"x">>}

\* the header lines: blank, one field, two fields, a repeated field
Headers == {<<>>, << <<"a">> >>, << <<"a">>, <<"b">> >>, << <<"a">>, <<"a">> >>}

(* ------------------------------------------------------------------ *)
(* ColumnType                                                          *)
(* ------------------------------------------------------------------ *)

UNKNOWN == 0
INT == 3
FLOAT == 5
DATETIME == 7
STRING_TYPE == 9

IsDigits(s) == Len(s) > 0 /\ \A i \in 1..Len(s) : s[i] \in Digits

DigitVal(c) == IF c = "1" THEN 1 ELSE 0

RECURSIVE DecimalVal(_)
DecimalVal(s) ==
    IF Len(s) = 0 THEN 0
    ELSE 10 * DecimalVal(SubSeq(s, 1, Len(s) - 1)) + DigitVal(s[Len(s)])

\* int(value) does not raise: over Alphabet, a non-empty run of digits.
IntParses(s) == IsDigits(s)

\* float(value) does not raise: over Alphabet, digits with an optional
\* exponent "e" digits ("1", "00", "1e0"; not "e1", "1e", "1x").
FloatParses(s) ==
    \/ IsDigits(s)
    \/ \E k \in 1..Len(s) :
          /\ s[k] = "e"
          /\ IsDigits(SubSeq(s, 1, k - 1))
          /\ IsDigits(SubSeq(s, k + 1, Len(s)))

\* dateutil.parser.parse(value) does not raise.  Over Alphabet the lexer
\* yields runs of digits and runs of letters; "e" and "x" name no month,
\* weekday, am/pm, h/m/s or jump word, so a letter run is rejected.  A lone
\* run of fewer than six digits is one number n: a day of the default month
\* when n <= 31 (day 0 does not exist), else a year, which datetime accepts
\* up to MAXYEAR = 9999.  The empty string holds no date.
DateParses(s) ==
    /\ IsDigits(s)
    /\ Len(s) < 6
    /\ DecimalVal(s) >= 1
    /\ DecimalVal(s) <= 9999

determine_type(v) ==
    IF DateParses(v) THEN DATETIME
    ELSE IF FloatParses(v) THEN FLOAT
    ELSE IF IntParses(v) THEN INT
    ELSE STRING_TYPE

(* ------------------------------------------------------------------ *)
(* ColumnSummary                                                       *)
(* ------------------------------------------------------------------ *)

\* the orders a set can be iterated in: its enumerations without repeats
Orders(S) ==
    {o \in [1..Cardinality(S) -> S] : \A i, j \in 1..Cardinality(S) : o[i] = o[j] => i = j}

\* the loop's exit test, and a variant that leaves the loop one type early
BreaksAtDatetime(val_type) == val_type = DATETIME

Breaks(val_type) == val_type = STRING_TYPE

\* "if val_type > column_type: column_type = val_type", and a variant that
\* takes the type of the value at hand
TakeLatest(val_type, column_type) == val_type

Raise(val_type, column_type) ==
    IF val_type > column_type THEN val_type ELSE column_type

\* the loop "for val in values" from its i-th value on, values iterated in
\* the order `order`; st holds column_type and optional as set so far.
RECURSIVE Scan(_, _, _)
Scan(order, i, st) ==
    IF i > Len(order) THEN st
    ELSE LET val == order[i]
             val_type == determine_type(val)
             next == [column_type |-> Raise(val_type, st.column_type),
                      optional |-> st.optional \/ Len(val) = 0]
         IN  IF Breaks(val_type) THEN next ELSE Scan(order, i + 1, next)

IsBooleanAtLeastTwo(values) == Cardinality(values) >= 2

IsBoolean(values) == Cardinality(values) = 2

\* ColumnSummary(field_name, values), values iterated in the order `order`
ColumnSummary(field_name, values, order) ==
    LET st == Scan(order, 1, [column_type |-> UNKNOWN, optional |-> FALSE])
    IN  [field_name |-> field_name,
         choices |-> values,
         boolean |-> IsBoolean(values),
         optional |-> st.optional,
         type |-> st.column_type,
         enum |-> FALSE]

(* ------------------------------------------------------------------ *)
(* csv.DictReader, as CsvSummary.__summarize uses it                    *)
(* ------------------------------------------------------------------ *)

\* the files of the model: empty, or a header line and data rows of at most
\* one cell more than the header, at most n rows and c cells in all
RowsOf(width, c) ==
    UNION {[1..n -> Values] : n \in 0..(IF width < c THEN width ELSE c)}

RECURSIVE Tables(_, _, _)
Tables(width, n, c) ==
    IF n = 0 THEN {<<>>}
    ELSE {<<>>} \cup UNION {{<<r>> \o t : t \in Tables(width, n - 1, c - Len(r))} :
                              r \in RowsOf(width, c)}

Files ==
    {<<>>} \cup UNION {{<<h>> \o t : t \in Tables(Len(h) + 1, MaxRows, MaxCells)} :
                        h \in Headers}

\* reader.fieldnames of a stream at `start`: the next row, or None at end of input
HasFieldnames(start) == start < Len(lines)

fieldnames(start) == lines[start + 1]

\* reader.line_num once reader.fieldnames was read
line_num(start) == IF HasFieldnames(start) THEN 1 ELSE 0

\* the keys of {field_name: set() for field_name in reader.fieldnames}, in
\* the dict's order: each name at its first occurrence
RECURSIVE Keys(_)
Keys(header) ==
    IF Len(header) = 0 THEN <<>>
    ELSE LET front == Keys(SubSeq(header, 1, Len(header) - 1))
             name == header[Len(header)]
         IN  IF \E i \in 1..Len(front) : front[i] = name THEN front
             ELSE Append(front, name)

\* the row DictReader yields, dict(zip(fieldnames, row)) with the fields
\* past the row's end set to restval = None: a field's value is the one at
\* the last position bearing its name, None when the row ends before it
LastIndex(header, f) ==
    CHOOSE p \in 1..Len(header) :
        header[p] = f /\ \A q \in 1..Len(header) : header[q] = f => q <= p

IsNone(header, row, f) == LastIndex(header, f) > Len(row)

Get(header, row, f) == row[LastIndex(header, f)]

\* the row has cells past the header: DictReader stores them under restkey = None
HasRestkey(header, row) == Len(row) > Len(header)

\* "if val:", and a variant that adds every cell
TruthyAlways(val) == TRUE

Truthy(val) == Len(val) > 0

\* one pass of "for key, val in row.items()" over a row without restkey
AddRow(header, row, columns) ==
    [f \in DOMAIN columns |->
        IF ~IsNone(header, row, f) /\ Truthy(Get(header, row, f))
        THEN columns[f] \cup {Get(header, row, f)}
        ELSE columns[f]]

\* "for row in reader" from line k on; blank lines are skipped by the
\* reader, and columns[None] of a row with restkey raises KeyError
RECURSIVE ReadRows(_, _, _)
ReadRows(header, k, columns) ==
    IF k > Len(lines) THEN [status |-> "ok", columns |-> columns, pos |-> Len(lines)]
    ELSE IF lines[k] = <<>> THEN ReadRows(header, k + 1, columns)
    ELSE IF HasRestkey(header, lines[k])
         THEN [status |-> "KeyError", columns |-> columns, pos |-> k]
    ELSE ReadRows(header, k + 1, AddRow(header, lines[k], columns))

\* the lists self.columns can end as: one ColumnSummary per key, each
\* column's set iterated in any order
RECURSIVE Summaries(_, _, _)
Summaries(keys, columns, i) ==
    IF i > Len(keys) THEN {<<>>}
    ELSE {<<ColumnSummary(keys[i], columns[keys[i]], o)>> \o rest :
             o \in Orders(columns[keys[i]]), rest \in Summaries(keys, columns, i + 1)}

NoObject(status, pos) ==
    [status |-> status, record_count |-> 0, columns |-> <<>>, pos |-> pos]

\* the outcomes of __summarize on a stream at `start`: the attributes set on
\* the CsvSummary and the stream's position, or the exception raised
Summarize(start) ==
    IF ~HasFieldnames(start) THEN {NoObject("TypeError", start)}
    ELSE LET header == fieldnames(start)
             keys == Keys(header)
             names == {keys[i] : i \in 1..Len(keys)}
             read == ReadRows(header, start + 2, [f \in names |-> {}])
         IN  IF read.status # "ok" THEN {NoObject(read.status, read.pos)}
             ELSE {[status |-> "ok",
                    record_count |-> line_num(start),
                    columns |-> cols,
                    pos |-> read.pos] : cols \in Summaries(keys, read.columns, 1)}

(* ------------------------------------------------------------------ *)
(* CsvSummary.__init__                                                  *)
(* ------------------------------------------------------------------ *)

\* "with open(path) as file": closed on leaving the block, however it is
\* left; and a variant that closes only after a summarize that returned
ClosedOnReturnOnly(out) == out.status = "ok"

WithOpenClosed(out) == TRUE

NoBuild ==
    [entry |-> "none", status |-> "none", record_count |-> 0, columns |-> <<>>,
     start |-> 0, pos |-> 0, closed |-> FALSE]

Built(entry, out, start, closed) ==
    [entry |-> entry, status |-> out.status, record_count |-> out.record_count,
     columns |-> out.columns, start |-> start, pos |-> out.pos, closed |-> closed]

Init ==
    /\ lines \in Files
    /\ file = [pos |-> 0, closed |-> FALSE]
    /\ prev = NoBuild
    /\ last = NoBuild
    /\ value = <<>>
    /\ result = UNKNOWN

\* CsvSummary(file=file): the caller's stream is read from where it stands
\* and left as the reader left it
BuildFromFile ==
    /\ \E out \in Summarize(file.pos) :
          /\ last' = Built("file", out, file.pos, file.closed)
          /\ file' = [file EXCEPT !.pos = out.pos]
    /\ prev' = last
    /\ UNCHANGED <<lines, value, result>>

\* CsvSummary(path=path): a stream of its own, read from the start
BuildFromPath ==
    /\ \E out \in Summarize(0) :
          last' = Built("path", out, 0, WithOpenClosed(out))
    /\ prev' = last
    /\ UNCHANGED <<lines, file, value, result>>

\* CsvSummary(): neither argument
BuildFromNothing ==
    /\ last' = [NoBuild EXCEPT !.entry = "neither", !.status = "Exception"]
    /\ prev' = last
    /\ UNCHANGED <<lines, file, value, result>>

Next == BuildFromFile \/ BuildFromPath \/ BuildFromNothing

Spec == Init /\ [][Next]_vars

(* ------------------------------------------------------------------ *)
(* ColumnType.determine_type on its own                                *)
(* ------------------------------------------------------------------ *)

Strings == UNION {[1..n -> Alphabet] : n \in 0..MaxLen}

InitClassify ==
    /\ lines = <<>>
    /\ file = [pos |-> 0, closed |-> FALSE]
    /\ prev = NoBuild
    /\ last = NoBuild
    /\ value \in Strings
    /\ result = UNKNOWN

Classify ==
    /\ result = UNKNOWN
    /\ result' = determine_type(value)
    /\ UNCHANGED <<lines, file, prev, last, value>>

NextClassify == Classify

SpecClassify == InitClassify /\ [][NextClassify]_vars

(* ------------------------------------------------------------------ *)
(* Properties                                                          *)
(* ------------------------------------------------------------------ *)

\* the last construction returned a CsvSummary
Returned == last.status = "ok"

IsBuild(b) == b.entry \in {"path", "file"}

\* the header line the last construction read, and the lines of the data
\* rows after it (blank lines are no rows)
Header == lines[last.start + 1]

DataRows == {k \in (last.start + 2)..Len(lines) : lines[k] # <<>>}

Columns == 1..Len(last.columns)

\* the cells the data rows hold under the field f, and the non-empty ones
Cells(f) == {Get(Header, lines[k], f) : k \in {j \in DataRows : ~IsNone(Header, lines[j], f)}}

Occurring(f) == Cells(f) \ {<<>>}

MaxType(S) == IF S = {} THEN UNKNOWN ELSE CHOOSE t \in S : \A u \in S : u <= t

SameResult(b, c) ==
    /\ b.status = c.status
    /\ b.record_count = c.record_count
    /\ b.columns = c.columns

\* C1: a CsvSummary built from a header and n data rows has record_count = n.
C1_RecordCountIsRowCount ==
    (Returned /\ Len(Header) > 0) => last.record_count = Cardinality(DataRows)

\* C2: a column of a built CsvSummary is optional exactly when some data row
\* has an empty cell in it.
C2_OptionalIffEmptyCell ==
    Returned =>
        \A i \in Columns :
            last.columns[i].optional <=> <<>> \in Cells(last.columns[i].field_name)

\* C3: a column's type is the greatest classification, by ColumnType's
\* order, of the values in its choices, UNKNOWN when there are none,
\* whatever the order the choices were iterated in.
C3_TypeIsMaxOfChoices ==
    Returned =>
        \A i \in Columns :
            last.columns[i].type =
                MaxType({determine_type(v) : v \in last.columns[i].choices})

C3_Witness ==
    /\ Returned
    /\ \E i \in Columns :
          /\ \E v \in last.columns[i].choices : determine_type(v) = STRING_TYPE
          /\ \E v \in last.columns[i].choices : determine_type(v) = DATETIME
          /\ \E v \in last.columns[i].choices : determine_type(v) = FLOAT
          /\ last.columns[i].type = STRING_TYPE
    /\ \E i \in Columns : last.columns[i].choices = {}

\* C4: a value that parses as an integer and not as a date classifies as INT.
C4_IntegersClassifyInt ==
    (result # UNKNOWN /\ IntParses(value) /\ ~DateParses(value)) => result = INT

\* C5: a column is boolean exactly when two distinct non-empty values occur
\* in it across the data rows.
C5_BooleanIffTwoDistinct ==
    Returned =>
        \A i \in Columns :
            last.columns[i].boolean <=>
                Cardinality(Occurring(last.columns[i].field_name)) = 2

C5_Witness ==
    /\ Returned
    /\ \E i \in Columns :
          /\ last.columns[i].boolean
          /\ Cardinality(Occurring(last.columns[i].field_name)) = 2
          /\ <<>> \in Cells(last.columns[i].field_name)

\* C6: no CsvSummary is built from a file with a data row of fewer or more
\* cells than the header has fields.
C6_MalformedRowFails ==
    Returned => \A k \in DataRows : Len(lines[k]) = Len(Header)

\* C7: no CsvSummary is built from a missing, empty or repeating header, so
\* a built CsvSummary has one column per header field, distinctly named.
C7_BadHeaderFails ==
    Returned =>
        /\ Len(Header) > 0
        /\ \A p, q \in 1..Len(Header) : Header[p] = Header[q] => p = q
        /\ Len(last.columns) = Len(Header)
        /\ \A i, j \in Columns :
              last.columns[i].field_name = last.columns[j].field_name => i = j

\* C8 as stated: two constructions in succession from the same input, both
\* by path= or both by the same file= object, end with equal results.
C8_SameInputSameResult ==
    (IsBuild(prev) /\ last.entry = prev.entry) => SameResult(prev, last)

\* C8 as amended: two constructions in succession that each read the input
\* from its start end with equal results; a construction from a file=
\* object that an earlier construction read to its end raises TypeError.
C8_SameStartSameResult ==
    /\ (IsBuild(prev) /\ IsBuild(last) /\ prev.start = 0 /\ last.start = 0)
           => SameResult(prev, last)
    /\ (prev.entry = "file" /\ prev.status = "ok" /\ last.entry = "file")
           => last.status = "TypeError"

C8_Witness ==
    /\ prev.entry = "path"
    /\ last.entry = "path"
    /\ Returned
    /\ \E i \in Columns : Cardinality(last.columns[i].choices) >= 2

\* C9 as stated: when a construction returns or raises, by path= or by
\* file=, its stream is read to the end and closed.
C9_ConsumedAndClosed ==
    IsBuild(last) => (last.closed /\ last.pos = Len(lines))

\* C9 as amended: the stream a path= construction opens is closed when the
\* construction returns or raises, and a construction that returns has read
\* its stream to the end.
C9_PathClosedReturnConsumed ==
    /\ last.entry = "path" => last.closed
    /\ (IsBuild(last) /\ Returned) => last.pos = Len(lines)

C9_Witness ==
    /\ last.entry = "path"
    /\ last.status = "KeyError"
    /\ last.pos < Len(lines)
    /\ last.closed

\* C10: a column's choices are the distinct non-empty values of its cells in
\* the data rows: no empty string, no other column's value, none left out.
C10_ChoicesAreOccurring ==
    Returned =>
        \A i \in Columns :
            last.columns[i].choices = Occurring(last.columns[i].field_name)

C10_Witness ==
    /\ Returned
    /\ Len(last.columns) = 2
    /\ last.columns[1].choices # {}
    /\ last.columns[2].choices # {}
    /\ last.columns[1].choices \cap last.columns[2].choices = {}
    /\ <<>> \in Cells(last.columns[1].field_name)

====
